---- MODULE Spec2Model ----
(***************************************************************************)
(* A model of the limit order book of src/src/lib.rs: the Order value and  *)
(* its comparison, the per-symbol OrderBookEntry (a BTreeSet<Order> and a  *)
(* log), the cross-symbol index, and the operations add, cancel, top,      *)
(* get_logs, total_volume and log_top_of_book.                             *)
(*                                                                         *)
(* A BTreeSet<Order> is modelled as the sequence of its elements in        *)
(* ascending cmp order (what iter() yields); no two elements of it compare *)
(* Equal.  Option<T> is modelled as a sequence of length 0 (None) or 1     *)
(* (Some).  usize is modelled with a reduced width: values are taken       *)
(* modulo USIZE_MAX + 1.                                                   *)
(***************************************************************************)
EXTENDS Integers, Sequences, FiniteSets, TLC

\* ---------------------------------------------------------------- bounds
NumUsers == 2
NumOrderIds == 2
NumPrices == 2
NumVolumes == 2
MaxCalls == 3
MaxDeepCalls == 5
MaxWideCalls == 3

\* usize::MAX, with the word reduced to 16 bits
USIZE_MAX == 65535

\* ---------------------------------------------------------------- inputs
Sides == {"Buy", "Sell"}
Symbols == {"XYZ", "ABC"}
Users == 1..NumUsers
OrderIds == 1..NumOrderIds
Prices == {99 + i : i \in 1..NumPrices}
Volumes == {10 * i : i \in 1..NumVolumes}
Keys == Users \X OrderIds

\* struct Order
Order ==
  [user_id : Users, order_id : OrderIds, price : Prices, volume : Volumes, side : Sides]

\* Order::new(side, user_id, order_id, price, volume)
NewOrder(side, user_id, order_id, price, volume) ==
  [user_id |-> user_id, order_id |-> order_id, price |-> price,
   volume |-> volume, side |-> side]

\* the inputs of the deep, narrow specification: one symbol, one price, one
\* volume, one order id, both sides and every user
DeepSymbols == {"XYZ"}
DeepOrders == {o \in Order : o.order_id = 1 /\ o.price = 100 /\ o.volume = 10}
DeepKeys == {k \in Keys : k[2] = 1}

\* the inputs of the wide specification: one symbol, one price, and volumes at
\* both ends of the usize range
WideSymbols == {"XYZ"}
WideOrders ==
  [user_id : Users, order_id : OrderIds, price : {100}, volume : {1, USIZE_MAX},
   side : Sides]

\* ---------------------------------------------------------------- Option
None == << >>
Some(x) == << x >>
is_some(x) == x # << >>
is_none(x) == x = << >>
unwrap(x) == x[1]

\* ---------------------------------------------------------------- Side
\* impl Not for Side
Not(side) == IF side = "Buy" THEN "Sell" ELSE "Buy"

\* ---------------------------------------------------------------- Order
\* usize::partial_cmp
usize_cmp(a, b) == IF a < b THEN "Less" ELSE IF a > b THEN "Greater" ELSE "Equal"

\* prices_cmp with the order_id tie-break of Sell used for both sides
prices_cmp_same_tie_break(self, other) ==
  IF self.price # other.price THEN usize_cmp(self.price, other.price)
  ELSE IF self.volume # other.volume THEN usize_cmp(self.volume, other.volume)
  ELSE usize_cmp(self.order_id, other.order_id)

\* prices_cmp comparing the volume before the price
prices_cmp_volume_first(self, other) ==
  IF self.volume # other.volume THEN usize_cmp(self.volume, other.volume)
  ELSE IF self.price # other.price THEN usize_cmp(self.price, other.price)
  ELSE IF self.side = "Buy" THEN usize_cmp(other.order_id, self.order_id)
  ELSE usize_cmp(self.order_id, other.order_id)

\* Order::prices_cmp
prices_cmp(self, other) ==
  IF self.price # other.price THEN usize_cmp(self.price, other.price)
  ELSE IF self.volume # other.volume THEN usize_cmp(self.volume, other.volume)
  ELSE IF self.side = "Buy" THEN usize_cmp(other.order_id, self.order_id)
  ELSE usize_cmp(self.order_id, other.order_id)

\* impl PartialOrd for Order
partial_cmp(self, other) ==
  IF self.side = "Buy"
  THEN IF other.side = "Buy" THEN prices_cmp(self, other) ELSE "Greater"
  ELSE IF other.side = "Buy" THEN "Less" ELSE prices_cmp(self, other)

\* impl Ord for Order
cmp(self, other) == partial_cmp(self, other)

\* ---------------------------------------------------------------- BTreeSet
\* BTreeSet::insert: an element that compares Equal to a stored one is not
\* inserted and the stored one is kept
btree_insert(orders, o) ==
  IF \E i \in 1..Len(orders) : cmp(orders[i], o) = "Equal" THEN orders
  ELSE LET n == Cardinality({i \in 1..Len(orders) : cmp(orders[i], o) = "Less"})
       IN SubSeq(orders, 1, n) \o << o >> \o SubSeq(orders, n + 1, Len(orders))

\* BTreeSet::remove: removes the stored element that compares Equal
btree_remove(orders, o) ==
  LET keep == {i \in 1..Len(orders) : cmp(orders[i], o) # "Equal"}
      nth(k) == CHOOSE i \in keep : Cardinality({j \in keep : j < i}) = k - 1
  IN [k \in 1..Cardinality(keep) |-> orders[nth(k)]]

\* BTreeSet::first / BTreeSet::last
btree_first(orders) == IF Len(orders) = 0 THEN None ELSE Some(orders[1])
btree_last(orders) == IF Len(orders) = 0 THEN None ELSE Some(orders[Len(orders)])

\* Iterator::rev
Rev(s) == [i \in 1..Len(s) |-> s[Len(s) + 1 - i]]

\* ---------------------------------------------------------------- LogEntry
Acknowledge(user_id, order_id) ==
  [type |-> "Acknowledge", user_id |-> user_id, order_id |-> order_id]
Reject(user_id, order_id) ==
  [type |-> "Reject", user_id |-> user_id, order_id |-> order_id]
TopOfBook(side, price, volume) ==
  [type |-> "TopOfBook", side |-> side, price |-> price, volume |-> volume]

\* OrderBookEntry::new
NewOrderBookEntry == [orders |-> << >>, log |-> << >>]

\* ---------------------------------------------------------------- OrderBook
\* OrderBook::total_volume: it is the iterator's sequence
take_while(it, user_id, price) ==
  LET stop == {i \in 1..Len(it) : ~(it[i].user_id = user_id /\ it[i].price = price)}
      n == IF stop = {} THEN Len(it) ELSE (CHOOSE i \in stop : \A j \in stop : i <= j) - 1
  IN SubSeq(it, 1, n)

RECURSIVE fold_volume(_, _)
fold_volume(run, acc) ==
  IF run = << >> THEN acc
  ELSE fold_volume(Tail(run), (acc + Head(run).volume) % (USIZE_MAX + 1))

RECURSIVE fold_min_order_id(_, _)
fold_min_order_id(run, min_order_id) ==
  IF run = << >> THEN min_order_id
  ELSE fold_min_order_id(Tail(run),
         IF Head(run).order_id < min_order_id THEN Head(run).order_id ELSE min_order_id)

total_volume(it, user_id, price) ==
  LET run == take_while(it, user_id, price)
  IN << fold_volume(run, 0), fold_min_order_id(run, USIZE_MAX) >>

\* OrderBook::top
top(ob, side, symbol) ==
  IF symbol \notin DOMAIN ob THEN None
  ELSE LET orders == ob[symbol].orders
           order == IF side = "Buy" THEN btree_last(orders) ELSE btree_first(orders)
       IN IF is_none(order) THEN None
          ELSE LET o == unwrap(order)
               IN IF o.side = side
                  THEN LET tv == IF side = "Sell"
                                 THEN total_volume(orders, o.user_id, o.price)
                                 ELSE total_volume(Rev(orders), o.user_id, o.price)
                       IN Some([o EXCEPT !.volume = tv[1], !.order_id = tv[2]])
                  ELSE None

\* acc + x.volume of total_volume's fold exceeds usize::MAX at some element
RECURSIVE fold_overflows(_, _)
fold_overflows(run, acc) ==
  IF run = << >> THEN FALSE
  ELSE \/ acc + Head(run).volume > USIZE_MAX
       \/ fold_overflows(Tail(run), (acc + Head(run).volume) % (USIZE_MAX + 1))

\* the call of total_volume made by top(side, symbol) overflows
top_overflows(ob, side, symbol) ==
  IF symbol \notin DOMAIN ob THEN FALSE
  ELSE LET orders == ob[symbol].orders
           order == IF side = "Buy" THEN btree_last(orders) ELSE btree_first(orders)
       IN IF is_none(order) THEN FALSE
          ELSE LET o == unwrap(order)
               IN IF o.side = side
                  THEN IF side = "Sell"
                       THEN fold_overflows(take_while(orders, o.user_id, o.price), 0)
                       ELSE fold_overflows(take_while(Rev(orders), o.user_id, o.price), 0)
                  ELSE FALSE

\* OrderBook::get_logs
get_logs(ob, symbol) == IF symbol \notin DOMAIN ob THEN None ELSE Some(ob[symbol].log)

\* a push that reaches the log of every symbol of the book
push_log_every_symbol(ob, symbol, entry) ==
  [s \in DOMAIN ob |-> [ob[s] EXCEPT !.log = Append(@, entry)]]

\* Vec::push on the log of a symbol
push_log(ob, symbol, entry) == [ob EXCEPT ![symbol].log = Append(@, entry)]

\* log_top_of_book comparing the tops by volume alone
log_top_of_book_volume_only(ob, symbol, old_top, new_top) ==
  IF is_none(new_top) THEN push_log(ob, symbol, TopOfBook("None", 0, 0))
  ELSE IF is_none(old_top) \/ unwrap(old_top).volume # unwrap(new_top).volume
  THEN LET order == unwrap(new_top)
       IN push_log(ob, symbol, TopOfBook(order.side, order.price, order.volume))
  ELSE ob

\* log_top_of_book that stays silent when the side has no top left
log_top_of_book_no_elimination(ob, symbol, old_top, new_top) ==
  IF is_none(new_top) THEN ob
  ELSE IF is_none(old_top) \/ unwrap(old_top) # unwrap(new_top)
  THEN LET order == unwrap(new_top)
       IN push_log(ob, symbol, TopOfBook(order.side, order.price, order.volume))
  ELSE ob

\* OrderBook::log_top_of_book
log_top_of_book(ob, symbol, old_top, new_top) ==
  IF is_none(new_top) THEN push_log(ob, symbol, TopOfBook("None", 0, 0))
  ELSE IF is_none(old_top) \/ unwrap(old_top) # unwrap(new_top)
  THEN LET order == unwrap(new_top)
       IN push_log(ob, symbol, TopOfBook(order.side, order.price, order.volume))
  ELSE ob

\* an insert that replaces the entry of a symbol that has one
or_insert_overwrite(ob, symbol) ==
  [s \in DOMAIN ob \cup {symbol} |-> IF s = symbol THEN NewOrderBookEntry ELSE ob[s]]

\* HashMap::entry(symbol).or_insert(OrderBookEntry::new())
or_insert(ob, symbol) ==
  IF symbol \in DOMAIN ob THEN ob
  ELSE [s \in DOMAIN ob \cup {symbol} |-> IF s = symbol THEN NewOrderBookEntry ELSE ob[s]]

\* HashMap::insert on the index
index_insert(idx, key, value) ==
  [k \in DOMAIN idx \cup {key} |-> IF k = key THEN value ELSE idx[k]]

\* a remove that leaves the key in the index
index_remove_kept(idx, key) == idx

\* HashMap::remove on the index
index_remove(idx, key) == [k \in DOMAIN idx \ {key} |-> idx[k]]

\* the admission test of OrderBook::add
crossed(top_, other_top, order) ==
  IF top_.side = "Sell" THEN other_top.price >= order.price
  ELSE order.price >= other_top.price

\* add that indexes the order before the admission test
add_index_first(ob, idx, symbol, order) ==
  LET top_ == top(ob, order.side, symbol)
      other_top == top(ob, Not(order.side), symbol)
      ob1 == or_insert(ob, symbol)
      idx2 == index_insert(idx, << order.user_id, order.order_id >>,
                           [symbol |-> symbol, order |-> order])
  IN IF is_some(top_) /\ is_some(other_top)
        /\ crossed(unwrap(top_), unwrap(other_top), order)
     THEN [order_book |-> push_log(ob1, symbol, Reject(order.user_id, order.order_id)),
           index |-> idx2]
     ELSE LET ob2 == push_log(ob1, symbol, Acknowledge(order.user_id, order.order_id))
              ob3 == [ob2 EXCEPT ![symbol].orders = btree_insert(@, order)]
              new_top == top(ob3, order.side, symbol)
          IN [order_book |-> log_top_of_book(ob3, symbol, top_, new_top),
              index |-> idx2]

\* OrderBook::add, as a function of the engine state
add(ob, idx, symbol, order) ==
  LET top_ == top(ob, order.side, symbol)
      other_top == top(ob, Not(order.side), symbol)
      ob1 == or_insert(ob, symbol)
  IN IF is_some(top_) /\ is_some(other_top)
        /\ crossed(unwrap(top_), unwrap(other_top), order)
     THEN [order_book |-> push_log(ob1, symbol, Reject(order.user_id, order.order_id)),
           index |-> idx]
     ELSE LET ob2 == push_log(ob1, symbol, Acknowledge(order.user_id, order.order_id))
              idx2 == index_insert(idx, << order.user_id, order.order_id >>,
                                   [symbol |-> symbol, order |-> order])
              ob3 == [ob2 EXCEPT ![symbol].orders = btree_insert(@, order)]
              new_top == top(ob3, order.side, symbol)
          IN [order_book |-> log_top_of_book(ob3, symbol, top_, new_top),
              index |-> idx2]

\* cancel that acknowledges after the top-of-book notification
cancel_ack_last(ob, idx, user_id, order_id) ==
  LET key == << user_id, order_id >>
  IN IF key \in DOMAIN idx
     THEN LET symbol == idx[key].symbol
              order == idx[key].order
              old_top == top(ob, order.side, symbol)
              ob1 == [ob EXCEPT ![symbol].orders = btree_remove(@, order)]
              new_top == top(ob1, order.side, symbol)
              ob2 == log_top_of_book(ob1, symbol, old_top, new_top)
          IN [order_book |-> push_log(ob2, symbol, Acknowledge(user_id, order_id)),
              index |-> index_remove(idx, key)]
     ELSE [order_book |-> ob, index |-> idx]

\* OrderBook::cancel, as a function of the engine state
cancel(ob, idx, user_id, order_id) ==
  LET key == << user_id, order_id >>
  IN IF key \in DOMAIN idx
     THEN LET symbol == idx[key].symbol
              order == idx[key].order
              old_top == top(ob, order.side, symbol)
              ob1 == [ob EXCEPT ![symbol].orders = btree_remove(@, order)]
              ob2 == push_log(ob1, symbol, Acknowledge(user_id, order_id))
              new_top == top(ob2, order.side, symbol)
          IN [order_book |-> log_top_of_book(ob2, symbol, old_top, new_top),
              index |-> index_remove(idx, key)]
     ELSE [order_book |-> ob, index |-> idx]

\* OrderBook::add built with overflow checks: the state in which the call
\* panics, if a sum of total_volume overflows, and else the result of add
add_checked(ob, idx, symbol, order) ==
  LET top_ == top(ob, order.side, symbol)
      other_top == top(ob, Not(order.side), symbol)
  IN IF top_overflows(ob, order.side, symbol) \/ top_overflows(ob, Not(order.side), symbol)
     THEN [order_book |-> ob, index |-> idx, panic |-> TRUE]
     ELSE IF is_some(top_) /\ is_some(other_top)
             /\ crossed(unwrap(top_), unwrap(other_top), order)
     THEN [order_book |-> add(ob, idx, symbol, order).order_book, index |-> idx,
           panic |-> FALSE]
     ELSE LET ob2 == push_log(or_insert(ob, symbol), symbol,
                              Acknowledge(order.user_id, order.order_id))
              idx2 == index_insert(idx, << order.user_id, order.order_id >>,
                                   [symbol |-> symbol, order |-> order])
              ob3 == [ob2 EXCEPT ![symbol].orders = btree_insert(@, order)]
          IN IF top_overflows(ob3, order.side, symbol)
             THEN [order_book |-> ob3, index |-> idx2, panic |-> TRUE]
             ELSE [order_book |-> add(ob, idx, symbol, order).order_book,
                   index |-> idx2, panic |-> FALSE]

\* OrderBook::cancel built with overflow checks
cancel_checked(ob, idx, user_id, order_id) ==
  LET key == << user_id, order_id >>
  IN IF key \notin DOMAIN idx
     THEN [order_book |-> ob, index |-> idx, panic |-> FALSE]
     ELSE LET symbol == idx[key].symbol
              order == idx[key].order
              ob1 == [ob EXCEPT ![symbol].orders = btree_remove(@, order)]
              ob2 == push_log(ob1, symbol, Acknowledge(user_id, order_id))
          IN IF top_overflows(ob, order.side, symbol)
             THEN [order_book |-> ob, index |-> index_remove(idx, key), panic |-> TRUE]
             ELSE IF top_overflows(ob2, order.side, symbol)
             THEN [order_book |-> ob2, index |-> index_remove(idx, key), panic |-> TRUE]
             ELSE [order_book |-> cancel(ob, idx, user_id, order_id).order_book,
                   index |-> index_remove(idx, key), panic |-> FALSE]

\* what a call in which a sum overflows can do: abort where overflow checks are
\* compiled in, wrap around where they are not; a build that has wrapped once
\* wraps again
Outcomes(panics, seen) ==
  IF ~panics THEN {"ok"} ELSE IF seen = "wrapped" THEN {"wrap"} ELSE {"wrap", "panic"}

\* ---------------------------------------------------------------- state
VARIABLES
  order_book,   \* OrderBook.order_book: symbol -> OrderBookEntry
  index,        \* OrderBook.index: (user_id, order_id) -> (symbol, order)
  last_call,    \* the call that produced this state
  prev,         \* order_book, index and last_call as they were before that call
  live,         \* the acknowledged adds whose key has not been cancelled since
  added,        \* the keys add has been called with
  readded,      \* TRUE once add has been called twice with one key
  ncalls,       \* the number of calls made
  touched,      \* the symbols add has been called with
  overflow,     \* "none", or "wrapped" / "panicked" once a volume sum overflowed
  probe         \* the operands and the result of a comparison of two orders

vars ==
  << order_book, index, last_call, prev, live, added, readded, ncalls, touched,
     overflow, probe >>

\* no comparison is under way
NoProbe == [done |-> FALSE]

\* OrderBook::new
Init ==
  /\ order_book = << >>
  /\ index = << >>
  /\ last_call = [op |-> "new"]
  /\ prev = [order_book |-> << >>, index |-> << >>, last_call |-> [op |-> "new"]]
  /\ live = {}
  /\ added = {}
  /\ readded = FALSE
  /\ ncalls = 0
  /\ touched = {}
  /\ overflow = "none"
  /\ probe = NoProbe

\* the last entry add pushed before its top-of-book notification
Acknowledged(r, symbol, order) ==
  LET n == Len(IF symbol \in DOMAIN order_book THEN order_book[symbol].log ELSE << >>)
  IN /\ symbol \in DOMAIN r.order_book
     /\ Len(r.order_book[symbol].log) > n
     /\ r.order_book[symbol].log[n + 1].type = "Acknowledge"

\* the overflow record after a call with this outcome
Overflowed(outcome) ==
  IF outcome = "panic" THEN "panicked" ELSE IF outcome = "wrap" THEN "wrapped" ELSE overflow

\* a call of add(symbol, order)
AddCall(symbol, order) ==
  LET checked == add_checked(order_book, index, symbol, order)
      key == << order.user_id, order.order_id >>
  IN /\ overflow # "panicked"
     /\ \E outcome \in Outcomes(checked.panic, overflow) :
          LET r == IF outcome = "panic" THEN checked
                   ELSE add(order_book, index, symbol, order)
          IN /\ order_book' = r.order_book
             /\ index' = r.index
             /\ overflow' = Overflowed(outcome)
             /\ live' = IF Acknowledged(r, symbol, order)
                        THEN live \cup {[symbol |-> symbol, order |-> order]}
                        ELSE live
     /\ last_call' = [op |-> "add", symbol |-> symbol, order |-> order]
     /\ prev' = [order_book |-> order_book, index |-> index, last_call |-> last_call]
     /\ added' = added \cup {key}
     /\ readded' = (readded \/ key \in added)
     /\ touched' = touched \cup {symbol}
     /\ ncalls' = ncalls + 1
     /\ UNCHANGED probe

\* a call of cancel(user_id, order_id)
CancelCall(user_id, order_id) ==
  LET checked == cancel_checked(order_book, index, user_id, order_id)
  IN /\ overflow # "panicked"
     /\ \E outcome \in Outcomes(checked.panic, overflow) :
          LET r == IF outcome = "panic" THEN checked
                   ELSE cancel(order_book, index, user_id, order_id)
          IN /\ order_book' = r.order_book
             /\ index' = r.index
             /\ overflow' = Overflowed(outcome)
     /\ last_call' = [op |-> "cancel", user_id |-> user_id, order_id |-> order_id]
     /\ prev' = [order_book |-> order_book, index |-> index, last_call |-> last_call]
     /\ live' = {l \in live : << l.order.user_id, l.order.order_id >> # << user_id, order_id >>}
     /\ UNCHANGED << added, readded, touched, probe >>
     /\ ncalls' = ncalls + 1

Add == \E symbol \in Symbols, order \in Order : ncalls < MaxCalls /\ AddCall(symbol, order)

Cancel == \E key \in Keys : ncalls < MaxCalls /\ CancelCall(key[1], key[2])

Next == Add \/ Cancel

Spec == Init /\ [][Next]_vars

\* the same engine driven deeper with the narrow inputs
AddDeep ==
  \E symbol \in DeepSymbols, order \in DeepOrders :
    ncalls < MaxDeepCalls /\ AddCall(symbol, order)

CancelDeep == \E key \in DeepKeys : ncalls < MaxDeepCalls /\ CancelCall(key[1], key[2])

NextDeep == AddDeep \/ CancelDeep

SpecDeep == Init /\ [][NextDeep]_vars

\* the same engine driven with volumes at both ends of the usize range
AddWide ==
  \E symbol \in WideSymbols, order \in WideOrders :
    ncalls < MaxWideCalls /\ AddCall(symbol, order)

CancelWide == \E key \in Keys : ncalls < MaxWideCalls /\ CancelCall(key[1], key[2])

NextWide == AddWide \/ CancelWide

SpecWide == Init /\ [][NextWide]_vars

\* the comparison of orders on its own: two orders are drawn and compared with
\* each other and with every third order
InitCmp ==
  /\ order_book = << >>
  /\ index = << >>
  /\ last_call = [op |-> "new"]
  /\ prev = [order_book |-> << >>, index |-> << >>, last_call |-> [op |-> "new"]]
  /\ live = {}
  /\ added = {}
  /\ readded = FALSE
  /\ ncalls = 0
  /\ touched = {}
  /\ overflow = "none"
  /\ \E a \in Order, b \in Order : probe = [done |-> FALSE, a |-> a, b |-> b]

Compare ==
  /\ ~probe.done
  /\ probe' = [done |-> TRUE, a |-> probe.a, b |-> probe.b,
                ab |-> cmp(probe.a, probe.b), ba |-> cmp(probe.b, probe.a),
                ac |-> [c \in Order |-> cmp(probe.a, c)],
                bc |-> [c \in Order |-> cmp(probe.b, c)]]
  /\ UNCHANGED << order_book, index, last_call, prev, live, added, readded, ncalls,
                  touched, overflow >>

NextCmp == Compare

SpecCmp == InitCmp /\ [][NextCmp]_vars

\* ---------------------------------------------------------------- reading a state
\* the orders resting in a symbol's ordered set
Resting(ob, symbol) ==
  IF symbol \in DOMAIN ob
  THEN {ob[symbol].orders[i] : i \in 1..Len(ob[symbol].orders)}
  ELSE {}

\* the log of a symbol, empty while the symbol has no entry
LogOf(ob, symbol) == IF symbol \in DOMAIN ob THEN ob[symbol].log ELSE << >>

\* what the last call appended to the log of a symbol
Appended(symbol) ==
  SubSeq(LogOf(order_book, symbol), Len(LogOf(prev.order_book, symbol)) + 1,
         Len(LogOf(order_book, symbol)))

KeyOf(o) == << o.user_id, o.order_id >>

\* the incoming order is marketable against an order resting on the other side
Crosses(ob, symbol, order) ==
  \E r \in Resting(ob, symbol) :
    /\ r.side = Not(order.side)
    /\ IF order.side = "Buy" THEN order.price >= r.price ELSE order.price <= r.price

\* ---------------------------------------------------------------- C1
\* C1: an add whose price crosses the best resting order of the other side
\* (a Buy at or above the lowest resting Sell, a Sell at or below the highest
\* resting Buy) appends exactly Reject{user_id, order_id} to the symbol's log
\* and leaves the ordered set, the index and both tops as they were; and the
\* log of XYZ after add(Sell 1 1 100 10), add(Buy 2 2 100 10) from the empty
\* book is [Acknowledge(1,1), TopOfBook{Sell,100,10}, Reject(2,2)].
C1_CrossedAddRejected ==
  /\ (last_call.op = "add" /\ Crosses(prev.order_book, last_call.symbol, last_call.order))
       => /\ Appended(last_call.symbol)
               = << Reject(last_call.order.user_id, last_call.order.order_id) >>
          /\ Resting(order_book, last_call.symbol)
               = Resting(prev.order_book, last_call.symbol)
          /\ index = prev.index
          /\ \A side \in Sides :
               top(order_book, side, last_call.symbol)
                 = top(prev.order_book, side, last_call.symbol)
  /\ ( /\ ncalls = 2
       /\ prev.last_call = [op |-> "add", symbol |-> "XYZ",
                            order |-> NewOrder("Sell", 1, 1, 100, 10)]
       /\ last_call = [op |-> "add", symbol |-> "XYZ",
                       order |-> NewOrder("Buy", 2, 2, 100, 10)] )
       => LogOf(order_book, "XYZ")
            = << Acknowledge(1, 1), TopOfBook("Sell", 100, 10), Reject(2, 2) >>

\* ---------------------------------------------------------------- C2
\* C2: an order is an element of the ordered set of symbol S exactly when the
\* index maps its (user_id, order_id) key to (S, that same order).
C2_IndexBookConsistent ==
  \A symbol \in Symbols, o \in Order :
    (o \in Resting(order_book, symbol))
      <=> ( /\ KeyOf(o) \in DOMAIN index
            /\ index[KeyOf(o)] = [symbol |-> symbol, order |-> o] )

\* ---------------------------------------------------------------- C3
\* C3: while no key has been added twice, every acknowledged order whose key
\* has not been cancelled since rests in its symbol's ordered set and is the
\* index entry of its key, field for field.
C3_LiveOrdersStored ==
  ~readded =>
    \A l \in live :
      /\ l.order \in Resting(order_book, l.symbol)
      /\ KeyOf(l.order) \in DOMAIN index
      /\ index[KeyOf(l.order)] = l

\* ---------------------------------------------------------------- C4
\* C4: cmp(a, b) is Less or Greater for every two orders that differ in a field.
C4_DistinctNeverEqual ==
  (probe.done /\ probe.a # probe.b) => probe.ab \in {"Less", "Greater"}

\* ---------------------------------------------------------------- C5
\* positions i < j of a symbol's ordered set hold two orders of one side and
\* one price with different order ids
SamePriceLevel(orders, i, j) ==
  /\ i < j
  /\ orders[i].side = orders[j].side
  /\ orders[i].price = orders[j].price
  /\ orders[i].order_id # orders[j].order_id

\* of the orders at positions i < j, the one with the smaller order id is the
\* closer to its side's top (the head for Sell, the tail for Buy)
EarlierCloserToTop(orders, i, j) ==
  IF orders[i].side = "Sell"
  THEN orders[i].order_id < orders[j].order_id
  ELSE orders[j].order_id < orders[i].order_id

\* C5 (as claimed): of two resting orders of one side with equal price, the
\* one with the smaller order_id is positioned closer to that side's top.
C5_PriceTimePriority ==
  \A symbol \in DOMAIN order_book :
    LET orders == order_book[symbol].orders
    IN \A i, j \in 1..Len(orders) :
         SamePriceLevel(orders, i, j) => EarlierCloserToTop(orders, i, j)

\* C5 (amended): of two resting orders of one side with equal price and equal
\* volume, the one with the smaller order_id is positioned closer to that
\* side's top.
C5_PriceVolumeTimePriority ==
  \A symbol \in DOMAIN order_book :
    LET orders == order_book[symbol].orders
    IN \A i, j \in 1..Len(orders) :
         (SamePriceLevel(orders, i, j) /\ orders[i].volume = orders[j].volume)
           => EarlierCloserToTop(orders, i, j)

C5_Witness ==
  \E symbol \in DOMAIN order_book :
    LET orders == order_book[symbol].orders
    IN \E i, j \in 1..Len(orders) :
         /\ SamePriceLevel(orders, i, j)
         /\ orders[i].volume = orders[j].volume
         /\ orders[i].side = "Buy"

\* ---------------------------------------------------------------- C6
\* the number of entries e in the sequence
RECURSIVE Count(_, _)
Count(seq, e) ==
  IF seq = << >> THEN 0 ELSE (IF Head(seq) = e THEN 1 ELSE 0) + Count(Tail(seq), e)

\* C6: a cancel of a key that is not in the index changes neither the ordered
\* sets, the logs nor the index; a cancel of an indexed key appends exactly
\* one Acknowledge for it and unindexes it; so the second of two cancels of
\* one key in a row leaves the state of the first.
C6_CancelAbsentIsNoOp ==
  last_call.op = "cancel" =>
    LET key == << last_call.user_id, last_call.order_id >>
        ack == Acknowledge(last_call.user_id, last_call.order_id)
    IN /\ key \notin DOMAIN prev.index
            => (order_book = prev.order_book /\ index = prev.index)
       /\ key \in DOMAIN prev.index
            => /\ Count(Appended(prev.index[key].symbol), ack) = 1
               /\ \A s \in Symbols \ {prev.index[key].symbol} : Appended(s) = << >>
               /\ key \notin DOMAIN index
       /\ prev.last_call = last_call
            => (order_book = prev.order_book /\ index = prev.index)

C6_Witness ==
  /\ last_call.op = "cancel"
  /\ prev.last_call = last_call
  /\ << last_call.user_id, last_call.order_id >> \in added
  /\ \E s \in DOMAIN order_book :
       Count(order_book[s].log, Acknowledge(last_call.user_id, last_call.order_id)) = 2

\* ---------------------------------------------------------------- C7, C8
\* the resting orders of a side, from the side's top outwards
SideFromTop(ob, side, symbol) ==
  LET ofSide(o) == o.side = side
      orders == IF symbol \in DOMAIN ob THEN ob[symbol].orders ELSE << >>
  IN IF side = "Sell" THEN SelectSeq(orders, ofSide) ELSE Rev(SelectSeq(orders, ofSide))

\* the longest run at the front of the sequence with the user and the price of
\* its first order
TopRun(seq) ==
  LET same(i) == seq[i].user_id = seq[1].user_id /\ seq[i].price = seq[1].price
      k == CHOOSE n \in 1..Len(seq) :
             /\ \A i \in 1..n : same(i)
             /\ n < Len(seq) => ~same(n + 1)
  IN SubSeq(seq, 1, k)

RECURSIVE SumVolume(_)
SumVolume(seq) == IF seq = << >> THEN 0 ELSE Head(seq).volume + SumVolume(Tail(seq))

MinOrderId(seq) ==
  CHOOSE m \in {seq[i].order_id : i \in 1..Len(seq)} :
    \A i \in 1..Len(seq) : m <= seq[i].order_id

\* C7: when the top end of a side is a run of k consecutive orders of one
\* user at one price, top(side, symbol) is that user's order at that price and
\* side whose volume is the sum of the k volumes and whose order_id is the
\* least of the k order ids.
C7_TopAggregatesRun ==
  \A symbol \in DOMAIN order_book, side \in Sides :
    LET seq == SideFromTop(order_book, side, symbol)
    IN seq # << >> =>
         top(order_book, side, symbol)
           = Some(NewOrder(side, seq[1].user_id, MinOrderId(TopRun(seq)),
                           seq[1].price, SumVolume(TopRun(seq))))

RECURSIVE SumVolumeOf(_)
SumVolumeOf(set) ==
  IF set = {} THEN 0
  ELSE LET o == CHOOSE x \in set : TRUE IN o.volume + SumVolumeOf(set \ {o})

\* C8: whenever top(side, symbol) is an order of user u at price p, its volume
\* is the sum of the volumes of all the orders of user u at price p resting on
\* that side of the symbol.
C8_TopVolumeIsLevelTotal ==
  \A symbol \in DOMAIN order_book, side \in Sides :
    LET t == top(order_book, side, symbol)
    IN is_some(t) =>
         unwrap(t).volume
           = SumVolumeOf({r \in Resting(order_book, symbol) :
                            /\ r.side = side
                            /\ r.user_id = unwrap(t).user_id
                            /\ r.price = unwrap(t).price})

\* ---------------------------------------------------------------- C9
\* the last call was an add that was acknowledged
AddAcknowledged ==
  /\ last_call.op = "add"
  /\ Appended(last_call.symbol) # << >>
  /\ Appended(last_call.symbol)[1].type = "Acknowledge"

\* the order is strictly better than every order resting on its side
NewBest(ob, symbol, order) ==
  \A r \in Resting(ob, symbol) :
    r.side = order.side =>
      IF order.side = "Buy" THEN order.price > r.price ELSE order.price < r.price

\* C9: an acknowledged add of an order strictly better than every order
\* resting on its side (or the first on its side) appends its Acknowledge and
\* then exactly one TopOfBook with the order's side and the price and volume of
\* top(order.side, symbol) after the insertion.
C9_NewBestNotified ==
  (AddAcknowledged /\ NewBest(prev.order_book, last_call.symbol, last_call.order))
    => LET t == top(order_book, last_call.order.side, last_call.symbol)
       IN /\ is_some(t)
          /\ Appended(last_call.symbol)
               = << Acknowledge(last_call.order.user_id, last_call.order.order_id),
                    TopOfBook(last_call.order.side, unwrap(t).price, unwrap(t).volume) >>

C9_Witness ==
  /\ AddAcknowledged
  /\ NewBest(prev.order_book, last_call.symbol, last_call.order)
  /\ \E r \in Resting(prev.order_book, last_call.symbol) : r.side = last_call.order.side
  /\ Len(Appended(last_call.symbol)) = 2

\* ---------------------------------------------------------------- C10
\* the last call appended no TopOfBook entry to any log
NoTopOfBookAppended ==
  \A s \in Symbols :
    \A i \in 1..Len(Appended(s)) : Appended(s)[i].type # "TopOfBook"

\* C10: an add or cancel across which top(order.side, symbol) has the same
\* value appends no TopOfBook entry to any log.
C10_UnchangedTopSilent ==
  /\ last_call.op = "add" =>
       (top(prev.order_book, last_call.order.side, last_call.symbol)
          = top(order_book, last_call.order.side, last_call.symbol)
        => NoTopOfBookAppended)
  /\ last_call.op = "cancel" =>
       LET key == << last_call.user_id, last_call.order_id >>
       IN IF key \in DOMAIN prev.index
          THEN (top(prev.order_book, prev.index[key].order.side, prev.index[key].symbol)
                  = top(order_book, prev.index[key].order.side, prev.index[key].symbol)
                => NoTopOfBookAppended)
          ELSE NoTopOfBookAppended

\* ---------------------------------------------------------------- C11
\* the orders of a side resting in a symbol
RestingOf(ob, side, symbol) == {r \in Resting(ob, symbol) : r.side = side}

\* the last call was a cancel that emptied this side of this symbol
SideEliminated(side, symbol) ==
  /\ last_call.op = "cancel"
  /\ RestingOf(prev.order_book, side, symbol) # {}
  /\ RestingOf(order_book, side, symbol) = {}

\* C11: a cancel that removes the last resting order of a side of a symbol
\* appends to that symbol's log its Acknowledge and then exactly one
\* TopOfBook{side: none, price: 0, volume: 0}.
C11_SideEliminationNotified ==
  \A symbol \in Symbols, side \in Sides :
    SideEliminated(side, symbol)
      => Appended(symbol)
           = << Acknowledge(last_call.user_id, last_call.order_id),
                TopOfBook("None", 0, 0) >>

C11_Witness ==
  \E symbol \in Symbols, side \in Sides :
    /\ SideEliminated(side, symbol)
    /\ RestingOf(order_book, Not(side), symbol) # {}

\* ---------------------------------------------------------------- C12
\* the best price of a non-empty set of orders of a side
BestPrice(side, rs) ==
  CHOOSE p \in {r.price : r \in rs} :
    \A r \in rs : IF side = "Sell" THEN p <= r.price ELSE p >= r.price

\* the element of the ordered set at the end that belongs to the side
Extreme(ob, side, symbol) ==
  IF side = "Sell" THEN ob[symbol].orders[1]
  ELSE ob[symbol].orders[Len(ob[symbol].orders)]

\* C12: top(Sell, symbol) is none exactly when the symbol has no resting
\* Sell, and otherwise the first element of the ordered set is a Sell of the
\* least resting Sell price and top has that price; top(Buy, symbol) is none
\* exactly when there is no resting Buy, and otherwise the last element is a
\* Buy of the greatest resting Buy price and top has that price.
C12_BestPriceAtExtremes ==
  \A symbol \in Symbols, side \in Sides :
    LET rs == RestingOf(order_book, side, symbol)
        t == top(order_book, side, symbol)
    IN /\ is_none(t) <=> rs = {}
       /\ rs # {} =>
            /\ unwrap(t).side = side
            /\ unwrap(t).price = BestPrice(side, rs)
            /\ Extreme(order_book, side, symbol).side = side
            /\ Extreme(order_book, side, symbol).price = BestPrice(side, rs)

C12_Witness ==
  \E symbol \in Symbols :
    /\ Cardinality({r.price : r \in RestingOf(order_book, "Sell", symbol)}) = 2
    /\ RestingOf(order_book, "Buy", symbol) # {}

\* ---------------------------------------------------------------- C13
\* the documented sort key: what a compared with b must give
SortKeyAllows(a, b, result) ==
  IF a.side # b.side THEN result = (IF a.side = "Sell" THEN "Less" ELSE "Greater")
  ELSE IF a.price # b.price THEN result = (IF a.price < b.price THEN "Less" ELSE "Greater")
  ELSE IF a.volume # b.volume
       THEN result = (IF a.volume < b.volume THEN "Less" ELSE "Greater")
  ELSE /\ a.order_id < b.order_id
            => result = (IF a.side = "Buy" THEN "Greater" ELSE "Less")
       /\ a.order_id > b.order_id
            => result = (IF a.side = "Buy" THEN "Less" ELSE "Greater")

LessOrEqual(result) == result \in {"Less", "Equal"}

\* the compared pair follows the documented sort key
C13_SortKey == probe.done => SortKeyAllows(probe.a, probe.b, probe.ab)

\* a below-or-equal b and b below-or-equal c give a below-or-equal c
C13_Transitive ==
  probe.done =>
    \A c \in Order :
      (LessOrEqual(probe.ab) /\ LessOrEqual(probe.bc[c])) => LessOrEqual(probe.ac[c])

\* a below-or-equal b and b below-or-equal a only for a = b
C13_Antisymmetric ==
  probe.done =>
    ((LessOrEqual(probe.ab) /\ LessOrEqual(probe.ba)) => probe.a = probe.b)

\* the comparison of b with a is the reverse of that of a with b
C13_Reversed ==
  probe.done =>
    probe.ba = (CASE probe.ab = "Less" -> "Greater"
                  [] probe.ab = "Greater" -> "Less"
                  [] OTHER -> "Equal")

\* C13: cmp follows the documented sort key for every pair of orders (Sell
\* below Buy; within a side ascending price, then ascending volume, then
\* order_id, the smaller comparing greater for Buy and smaller for Sell), and
\* the relation is antisymmetric and transitive.
C13_CmpIsDocumentedOrder == C13_SortKey /\ C13_Antisymmetric /\ C13_Transitive

\* ---------------------------------------------------------------- C14
\* C14: get_logs(symbol) is none exactly for the symbols add was never called
\* with; a symbol that has an entry keeps it across every call, and get_logs
\* gives what it gave before the call followed by what the call emitted.
C14_LogsKeptOnceAdded ==
  /\ \A symbol \in Symbols :
       is_none(get_logs(order_book, symbol)) <=> symbol \notin touched
  /\ \A symbol \in DOMAIN prev.order_book :
       /\ is_some(get_logs(order_book, symbol))
       /\ unwrap(get_logs(order_book, symbol))
            = prev.order_book[symbol].log \o Appended(symbol)

C14_Witness ==
  /\ last_call.op = "cancel"
  /\ \E symbol \in touched :
       /\ Resting(order_book, symbol) = {}
       /\ Len(unwrap(get_logs(order_book, symbol))) = 4
  /\ \E symbol \in Symbols : symbol \notin touched /\ is_none(get_logs(order_book, symbol))

\* ---------------------------------------------------------------- C15
\* the last call appended a Reject to the log of the symbol
RejectAppended(symbol) ==
  \E i \in 1..Len(Appended(symbol)) : Appended(symbol)[i].type = "Reject"

\* both sides of the symbol have a resting order and the order's price crosses
\* the best price of the other side
CrossesOppositeTop(ob, symbol, order) ==
  /\ RestingOf(ob, "Buy", symbol) # {}
  /\ RestingOf(ob, "Sell", symbol) # {}
  /\ IF order.side = "Sell"
     THEN BestPrice("Buy", RestingOf(ob, "Buy", symbol)) >= order.price
     ELSE order.price >= BestPrice("Sell", RestingOf(ob, "Sell", symbol))

C16_RejectChangesOnlyLog ==
  (last_call.op = "add" /\ RejectAppended(last_call.symbol)) =>
    /\ Appended(last_call.symbol)
         = << Reject(last_call.order.user_id, last_call.order.order_id) >>
    /\ order_book[last_call.symbol].orders = prev.order_book[last_call.symbol].orders
    /\ index = prev.index
    /\ \A t \in Symbols \ {last_call.symbol} :
         /\ t \in DOMAIN order_book <=> t \in DOMAIN prev.order_book
         /\ t \in DOMAIN order_book => order_book[t] = prev.order_book[t]

C16_Witness ==
  /\ last_call.op = "add"
  /\ RejectAppended(last_call.symbol)
  /\ KeyOf(last_call.order) \in DOMAIN index
  /\ index[KeyOf(last_call.order)].order # last_call.order

\* ---------------------------------------------------------------- C17
\* the entries of one call: an opening entry, then at most one TopOfBook
CallEntries(a, openings) ==
  /\ Len(a) \in {1, 2}
  /\ a[1] \in openings
  /\ Len(a) = 2 => (a[1].type = "Acknowledge" /\ a[2].type = "TopOfBook")

\* C17: an add appends to its symbol's log one Acknowledge or Reject of its
\* key and then at most one TopOfBook (none after a Reject); a cancel of an
\* indexed key appends to the log of the indexed symbol one Acknowledge and
\* then at most one TopOfBook; no call appends to another log; what every log
\* held before a call is a prefix of what it holds after; and no entry is a
\* SideElimination or a Trade.
C17_LogShape ==
  /\ last_call.op = "add" =>
       /\ CallEntries(Appended(last_call.symbol),
                      {Acknowledge(last_call.order.user_id, last_call.order.order_id),
                       Reject(last_call.order.user_id, last_call.order.order_id)})
       /\ \A t \in Symbols \ {last_call.symbol} : Appended(t) = << >>
  /\ (last_call.op = "cancel"
      /\ << last_call.user_id, last_call.order_id >> \in DOMAIN prev.index) =>
       LET symbol == prev.index[<< last_call.user_id, last_call.order_id >>].symbol
       IN /\ CallEntries(Appended(symbol),
                         {Acknowledge(last_call.user_id, last_call.order_id)})
          /\ \A t \in Symbols \ {symbol} : Appended(t) = << >>
  /\ \A symbol \in Symbols :
       LogOf(order_book, symbol) = LogOf(prev.order_book, symbol) \o Appended(symbol)
  /\ \A symbol \in DOMAIN order_book :
       \A i \in 1..Len(order_book[symbol].log) :
         order_book[symbol].log[i].type \in {"Acknowledge", "Reject", "TopOfBook"}

C17_Witness ==
  /\ last_call.op = "cancel"
  /\ << last_call.user_id, last_call.order_id >> \in DOMAIN prev.index
  /\ \E symbol \in Symbols :
       /\ Len(Appended(symbol)) = 2
       /\ Appended(symbol)[2].side # "None"

\* ---------------------------------------------------------------- C18
\* the orders whose volumes top(side, symbol) adds up
AggregatedRun(ob, side, symbol) ==
  LET orders == ob[symbol].orders
      it == IF side = "Sell" THEN orders ELSE Rev(orders)
  IN take_while(it, it[1].user_id, it[1].price)

\* C18: no call panics, and the volume of the top of a side is the exact
\* arithmetic sum of the volumes it aggregates (no wrap-around, no overflow
\* abort), whatever usize values the orders carry.
C18_NoArithmeticFailure ==
  /\ overflow # "panicked"
  /\ \A symbol \in DOMAIN order_book, side \in Sides :
       is_some(top(order_book, side, symbol))
         => unwrap(top(order_book, side, symbol)).volume
              = SumVolume(AggregatedRun(order_book, side, symbol))

\* ---------------------------------------------------------------- C19
\* C19: in every symbol with a resting Buy and a resting Sell, the highest
\* resting Buy price is strictly less than the lowest resting Sell price.
C19_BookNeverCrossed ==
  \A symbol \in Symbols :
    (RestingOf(order_book, "Buy", symbol) # {} /\ RestingOf(order_book, "Sell", symbol) # {})
      => BestPrice("Buy", RestingOf(order_book, "Buy", symbol))
           < BestPrice("Sell", RestingOf(order_book, "Sell", symbol))

\* ---------------------------------------------------------------- C20
\* C20: an add or a cancel of an order of one side leaves the value of top for
\* the opposite side of the same symbol as it was.
C20_OppositeTopUnchanged ==
  /\ last_call.op = "add" =>
       top(order_book, Not(last_call.order.side), last_call.symbol)
         = top(prev.order_book, Not(last_call.order.side), last_call.symbol)
  /\ (last_call.op = "cancel"
      /\ << last_call.user_id, last_call.order_id >> \in DOMAIN prev.index) =>
       LET entry == prev.index[<< last_call.user_id, last_call.order_id >>]
       IN top(order_book, Not(entry.order.side), entry.symbol)
            = top(prev.order_book, Not(entry.order.side), entry.symbol)

\* ---------------------------------------------------------------- C21
\* C21: a cancel(user_id, order_id) leaves resting, in its symbol, every order
\* that was resting under another key, in every symbol; the index loses that
\* one key (if it had it) and keeps every other entry as it was.
C21_CancelRemovesOnlyItsOrder ==
  last_call.op = "cancel" =>
    LET key == << last_call.user_id, last_call.order_id >>
    IN /\ \A symbol \in Symbols :
            \A r \in Resting(prev.order_book, symbol) :
              KeyOf(r) # key => r \in Resting(order_book, symbol)
       /\ \A symbol \in Symbols :
            Resting(order_book, symbol) \subseteq Resting(prev.order_book, symbol)
       /\ DOMAIN index = DOMAIN prev.index \ {key}
       /\ \A k \in DOMAIN index : index[k] = prev.index[k]

\* ---------------------------------------------------------------- C22
\* the book with the entries of every symbol but this one taken away
OnlySymbol(ob, symbol) == [s \in DOMAIN ob \cap {symbol} |-> ob[s]]

\* C22: an add(S, order) leaves, for every other symbol T, the entry (ordered
\* set and log), top(Buy, T) and top(Sell, T) as they were; it changes no
\* index entry but that of the order's key; and what it does to S's entry and
\* to the index entry of the key, the rejection included, is what it does on a
\* book holding S's entry alone.
C22_SymbolIsolation ==
  last_call.op = "add" =>
    LET S == last_call.symbol
        order == last_call.order
        alone == add(OnlySymbol(prev.order_book, S), << >>, S, order)
    IN /\ \A T \in Symbols \ {S} :
            /\ T \in DOMAIN order_book <=> T \in DOMAIN prev.order_book
            /\ T \in DOMAIN order_book => order_book[T] = prev.order_book[T]
            /\ \A side \in Sides :
                 top(order_book, side, T) = top(prev.order_book, side, T)
       /\ \A k \in (DOMAIN index \cup DOMAIN prev.index) \ {KeyOf(order)} :
            /\ k \in DOMAIN index
            /\ k \in DOMAIN prev.index
            /\ index[k] = prev.index[k]
       /\ order_book[S] = alone.order_book[S]
       /\ IF KeyOf(order) \in DOMAIN alone.index
          THEN /\ KeyOf(order) \in DOMAIN index
               /\ index[KeyOf(order)] = [symbol |-> S, order |-> order]
          ELSE /\ KeyOf(order) \in DOMAIN index <=> KeyOf(order) \in DOMAIN prev.index
               /\ KeyOf(order) \in DOMAIN index
                    => index[KeyOf(order)] = prev.index[KeyOf(order)]

\* an add acknowledged in one symbol while another symbol holds a resting
\* order of the opposite side at a price the order crosses
C22_Witness ==
  /\ last_call.op = "add"
  /\ ~RejectAppended(last_call.symbol)
  /\ RestingOf(prev.order_book, last_call.order.side, last_call.symbol) # {}
  /\ \E T \in Symbols \ {last_call.symbol} :
       \E r \in RestingOf(order_book, Not(last_call.order.side), T) :
         IF last_call.order.side = "Buy" THEN last_call.order.price >= r.price
         ELSE r.price >= last_call.order.price

====
